---- MODULE Spec2Model ----
(***************************************************************************)
(* Model of neuralprophet/configure.py: the configuration records Trend,   *)
(* AllSeason (with Season entries), Train and Covar, their __post_init__   *)
(* validation and their data-dependent finalisation methods.               *)
(*                                                                         *)
(* The state is one configuration instance (self), the last call made on   *)
(* it with its arguments (call), what that call returned or raised (ret)   *)
(* the number of method calls made on the instance (ncalls) and the        *)
(* training data handed to the instance (data): one instance is finalised  *)
(* from one training set, so every data-dependent call on it receives the  *)
(* same dates or dataset.                                                  *)
(*                                                                         *)
(* Encodings.  A Python value that may be None is a sequence: <<>> is      *)
(* None and <<v>> is the value v.  A value of a union type is a record     *)
(* tagged with its Python type (field t).  A loss name, which the code     *)
(* lower-cases, is a sequence of one-character strings; a seasonality      *)
(* mode, which the code may read as a number, is a sequence of Unicode     *)
(* code points.  Durations and timestamps are whole hours.  Fractions are  *)
(* integers in a fixed unit that is named where the field is introduced;   *)
(* a weight the code multiplies by a float constant is kept as the value   *)
(* passed in with a flag for the multiplication.                           *)
(***************************************************************************)
EXTENDS Integers, Sequences, FiniteSets, TLC

VARIABLES self, call, ret, ncalls, data

vars == <<self, call, ret, ncalls, data>>

(* ------------------------------ bounds -------------------------------- *)

\* method calls made on one instance after its construction
MaxCalls == 2

(* ------------------------------ helpers ------------------------------- *)

None == <<>>

Some(v) == <<v>>

IsNone(o) == o = None

Val(o) == o[1]

Min(a, b) == IF a <= b THEN a ELSE b

Max(a, b) == IF a >= b THEN a ELSE b

\* Python's int() of the quotient num/den (den > 0): truncation towards zero
IntQuot(num, den) == IF num >= 0 THEN num \div den ELSE -((-num) \div den)

\* no instance constructed (yet, or the constructor raised)
NoObj == [cls |-> "none"]

NoCall == [op |-> "none"]

(* =============================== Train ================================= *)

\* str.lower() on the characters that occur in the loss names
LowerChar(c) ==
    CASE c = "A" -> "a" [] c = "B" -> "b" [] c = "E" -> "e" [] c = "H" -> "h"
      [] c = "L" -> "l" [] c = "M" -> "m" [] c = "O" -> "o" [] c = "R" -> "r"
      [] c = "S" -> "s" [] c = "T" -> "t" [] c = "U" -> "u"
      [] OTHER -> c

Lower(s) == [i \in DOMAIN s |-> LowerChar(s[i])]

HuberNames == { <<"h","u","b","e","r">>, <<"s","m","o","o","t","h","l","1">>,
                <<"s","m","o","o","t","h","l","1","l","o","s","s">> }

L1Names == { <<"m","a","e">>, <<"l","1">>, <<"l","1","l","o","s","s">> }

MSENames == { <<"m","s","e">>, <<"m","s","e","l","o","s","s">>, <<"l","2">>,
              <<"l","2","l","o","s","s">> }

\* names that hasattr(torch.nn.modules.loss, .) finds (the ones used here)
TorchLossAttrs == {"SmoothL1Loss", "L1Loss", "MSELoss", "HuberLoss"}

Str(v) == [t |-> "str", v |-> v]

Obj(c) == [t |-> "obj", cls |-> c]

\* faulty variant: an unknown loss name falls back to the MSE loss
ResolveLoss_DefaultMSE(loss_func) ==
    IF loss_func.t = "str"
    THEN IF Lower(loss_func.v) \in HuberNames
         THEN [raised |-> FALSE, loss |-> Obj("SmoothL1Loss")]
         ELSE IF Lower(loss_func.v) \in L1Names
         THEN [raised |-> FALSE, loss |-> Obj("L1Loss")]
         ELSE [raised |-> FALSE, loss |-> Obj("MSELoss")]
    ELSE IF loss_func.cls \in TorchLossAttrs
         THEN [raised |-> FALSE, loss |-> loss_func]
         ELSE [raised |-> TRUE, loss |-> loss_func]

\* The loss selection of Train.__post_init__: the loss object, or the
\* exception raised.
ResolveLoss(loss_func) ==
    IF loss_func.t = "str"
    THEN IF Lower(loss_func.v) \in HuberNames
         THEN [raised |-> FALSE, loss |-> Obj("SmoothL1Loss")]
         ELSE IF Lower(loss_func.v) \in L1Names
         THEN [raised |-> FALSE, loss |-> Obj("L1Loss")]
         ELSE IF Lower(loss_func.v) \in MSENames
         THEN [raised |-> FALSE, loss |-> Obj("MSELoss")]
         ELSE [raised |-> TRUE, loss |-> loss_func]
    ELSE IF loss_func.cls \in TorchLossAttrs
         THEN [raised |-> FALSE, loss |-> loss_func]
         ELSE [raised |-> TRUE, loss |-> loss_func]

\* reg_delay_pct is held in quarters (2 is 0.5): int(reg_delay_pct * epochs)
QuartersPerUnit == 4

LambdaDelay(reg_delay_pct, epochs) ==
    IntQuot(reg_delay_pct * epochs, QuartersPerUnit)

RECURSIVE Log10Floor(_)
\* int(np.log10(n_data)) for n_data >= 1
Log10Floor(n) == IF n < 10 THEN 0 ELSE 1 + Log10Floor(n \div 10)

\* faulty variant: the exponent is 2 * log_data + 1
AutoBatchSize_PlusOne(n_data, min_batch, max_batch) ==
    LET log_data == Log10Floor(n_data)
        twice_batch == 2 ^ (2 * log_data + 2)
    IN  Min(2 * max_batch, Max(2 * min_batch, twice_batch)) \div 2

\* batch_size = 2 ** (2 * log_data - 1), clamped.  The power is 1/2 when
\* log_data = 0, so the comparison is made on the doubled values; with
\* min_batch >= 1 the clamped value is a whole number.
AutoBatchSize(n_data, min_batch, max_batch) ==
    LET log_data == Log10Floor(n_data)
        twice_batch == 2 ^ (2 * log_data)
    IN  Min(2 * max_batch, Max(2 * min_batch, twice_batch)) \div 2

\* epochs = int((1000.0 / n_data) * 2 ** (3 + log_data)), clamped
AutoEpochs(n_data, min_epoch, max_epoch) ==
    LET log_data == Log10Floor(n_data)
        raw == IntQuot(1000 * 2 ^ (3 + log_data), n_data)
    IN  Min(max_epoch, Max(min_epoch, raw))

\* int(x * 2 ** k) for an integer x and an integer k of either sign
ScalePow2(x, k) == IF k >= 0 THEN x * 2 ^ k ELSE IntQuot(x, 2 ^ (-k))

SpeedBatch(batch_size, train_speed) == Max(1, ScalePow2(batch_size, train_speed))

\* faulty variant: epochs are scaled in the same direction as the batch size
SpeedEpochs_SameSign(epochs, train_speed) == Max(1, ScalePow2(epochs, train_speed))

SpeedEpochs(epochs, train_speed) == Max(1, ScalePow2(epochs, -train_speed))

\* a learning rate is mant * 2 ** exp; multiplying by 2 ** train_speed is exact
SpeedLr(learning_rate, train_speed) ==
    [mant |-> learning_rate.mant, exp |-> learning_rate.exp + train_speed]

\* the guard of apply_train_speed and apply_train_speed_all
SpeedActive(s) == ~IsNone(s.train_speed) /\ Val(s.train_speed) # 0

\* The three steps of apply_train_speed in order.  A step on a field that is
\* None raises TypeError and leaves the earlier steps' assignments in place.
ApplyTrainSpeed(s, batch, epoch, lr) ==
    IF ~SpeedActive(s) THEN [self |-> s, ret |-> "None"]
    ELSE
    LET ts == Val(s.train_speed)
        badB == batch /\ IsNone(s.batch_size)
        s1 == IF batch /\ ~badB
              THEN [s EXCEPT !.batch_size = Some(SpeedBatch(Val(@), ts))]
              ELSE s
        badE == epoch /\ IsNone(s.epochs)
        s2 == IF epoch /\ ~badE
              THEN [s1 EXCEPT !.epochs = Some(SpeedEpochs(Val(@), ts))]
              ELSE s1
        badL == lr /\ IsNone(s.learning_rate)
        s3 == IF lr /\ ~badL
              THEN [s2 EXCEPT !.learning_rate = Some(SpeedLr(Val(@), ts))]
              ELSE s2
    IN  IF badB THEN [self |-> s, ret |-> "TypeError"]
        ELSE IF badE THEN [self |-> s1, ret |-> "TypeError"]
        ELSE IF badL THEN [self |-> s2, ret |-> "TypeError"]
        ELSE [self |-> s3, ret |-> "None"]

(* ---- inputs of the Train actions ---- *)

LearningRates == {None, Some([mant |-> 1, exp |-> 0])}

EpochInputs == {None, Some(10)}

BatchInputs == {None, Some(3)}

LossInputs ==
    { Str(<<"H","u","b","e","r">>), Str(<<"M","S","E">>), Str(<<"m","s","e">>),
      Str(<<"l","2","l","o","s","s">>), Str(<<"M","a","e">>),
      Str(<<"r","m","s","e">>), Str(<<"L","3">>),
      Obj("L1Loss"), Obj("NoneType") }

TrainSpeeds == {None, Some(0), Some(1), Some(-1)}

RegDelayPcts == {2, 4}

NDataInputs == {0, 1, 9, 100, 1000, 20000}

\* (min_batch, max_batch, min_epoch, max_epoch): the defaults, a narrow range
\* and a range whose lower ends lie above its upper ends
BatchEpochBounds == { <<1, 128, 5, 1000>>, <<2, 4, 20, 50>>, <<8, 4, 50, 20>> }

(* ---- actions ---- *)

\* Train(...): the dataclass __init__ followed by __post_init__
TrainInit ==
    /\ self = NoObj
    /\ call = NoCall
    /\ \E lr \in LearningRates, ep \in EpochInputs, bs \in BatchInputs,
          lf \in LossInputs, ts \in TrainSpeeds, pct \in RegDelayPcts :
         LET r == ResolveLoss(lf)
             obj == [cls |-> "Train", learning_rate |-> lr, epochs |-> ep,
                     batch_size |-> bs, loss_func |-> r.loss, train_speed |-> ts,
                     ar_sparsity |-> None, reg_delay_pct |-> pct,
                     reg_lambda_trend |-> None, trend_reg_threshold |-> None,
                     reg_lambda_season |-> None,
                     lambda_delay |-> IF IsNone(ep) THEN None
                                      ELSE Some(LambdaDelay(pct, Val(ep)))]
         IN  /\ call' = [op |-> "Train", loss_func |-> lf]
             /\ self' = IF r.raised THEN NoObj ELSE obj
             /\ ret' = IF r.raised THEN "NotImplementedError" ELSE "ok"
             /\ ncalls' = 0
             /\ data' = None

set_auto_batch_epoch ==
    /\ self.cls = "Train"
    /\ ncalls < MaxCalls
    /\ \E n_data \in NDataInputs, b \in BatchEpochBounds :
         LET min_batch == b[1]
             max_batch == b[2]
             min_epoch == b[3]
             max_epoch == b[4]
             s1 == IF IsNone(self.batch_size)
                   THEN [self EXCEPT !.batch_size =
                            Some(AutoBatchSize(n_data, min_batch, max_batch))]
                   ELSE self
             ep == AutoEpochs(n_data, min_epoch, max_epoch)
             s2 == IF IsNone(self.epochs)
                   THEN [s1 EXCEPT !.epochs = Some(ep),
                                   !.lambda_delay =
                                       Some(LambdaDelay(self.reg_delay_pct, ep))]
                   ELSE s1
         IN  /\ call' = [op |-> "set_auto_batch_epoch", n_data |-> n_data,
                         min_batch |-> min_batch, max_batch |-> max_batch,
                         min_epoch |-> min_epoch, max_epoch |-> max_epoch]
             /\ self' = IF n_data >= 1 THEN s2 ELSE self
             /\ ret' = IF n_data >= 1 THEN "None" ELSE "AssertionError"
             /\ ncalls' = ncalls + 1
             /\ UNCHANGED data

apply_train_speed ==
    /\ self.cls = "Train"
    /\ ncalls < MaxCalls
    /\ \E batch \in BOOLEAN, epoch \in BOOLEAN, lr \in BOOLEAN :
         LET r == ApplyTrainSpeed(self, batch, epoch, lr)
         IN  /\ call' = [op |-> "apply_train_speed", batch |-> batch,
                         epoch |-> epoch, lr |-> lr]
             /\ self' = r.self
             /\ ret' = r.ret
             /\ ncalls' = ncalls + 1
             /\ UNCHANGED data

apply_train_speed_all ==
    /\ self.cls = "Train"
    /\ ncalls < MaxCalls
    /\ LET r == IF SpeedActive(self)
                THEN ApplyTrainSpeed(self, TRUE, TRUE, TRUE)
                ELSE [self |-> self, ret |-> "None"]
       IN  /\ call' = [op |-> "apply_train_speed_all"]
           /\ self' = r.self
           /\ ret' = r.ret
           /\ ncalls' = ncalls + 1
           /\ UNCHANGED data

(* =============================== Covar ================================= *)

CovarRegInputs == {None, Some(-1), Some(0), Some(1)}

NormalizeInputs == {"auto", "off"}

\* Covar(...): __post_init__ raises ValueError on a negative reg_lambda
CovarInit ==
    /\ self = NoObj
    /\ call = NoCall
    /\ \E reg_lambda \in CovarRegInputs, as_scalar \in BOOLEAN,
          normalize \in NormalizeInputs :
         LET raised == ~IsNone(reg_lambda) /\ Val(reg_lambda) < 0
         IN  /\ call' = [op |-> "Covar", reg_lambda |-> reg_lambda]
             /\ self' = IF raised THEN NoObj
                        ELSE [cls |-> "Covar", reg_lambda |-> reg_lambda,
                              as_scalar |-> as_scalar, normalize |-> normalize]
             /\ ret' = IF raised THEN "ValueError" ELSE "ok"
             /\ ncalls' = 0
             /\ data' = None

(* ========================= Season and AllSeason ======================== *)

HoursPerDay == 24

Days(d) == d * HoursPerDay

Weeks(w) == Days(7 * w)

Bool(b) == [t |-> "bool", b |-> b]

IntArg(i) == [t |-> "int", i |-> i]

Season(resolution, period, arg) ==
    [resolution |-> resolution, period |-> period, arg |-> arg]

\* the period of the yearly seasonality, 365.25 days, in hours
YearlyPeriod == 8766

YearlyResolution == 6

WeeklyResolution == 3

DailyResolution == 6

\* self.periods is an OrderedDict: a sequence of [name, season] entries
Entry(name, season) == [name |-> name, season |-> season]

Names(periods) == {periods[i].name : i \in DOMAIN periods}

IndexOf(periods, name) == CHOOSE i \in DOMAIN periods : periods[i].name = name

\* periods[name] = season: in place for a known key, at the end for a new one
SetItem(periods, name, season) ==
    IF name \in Names(periods)
    THEN [periods EXCEPT ![IndexOf(periods, name)] = Entry(name, season)]
    ELSE Append(periods, Entry(name, season))

\* The reg_lambda passed in is held in hundredths.  The stored field is
\* either the value passed in (scaled FALSE) or the float product
\* 0.01 * reg_lambda of the value passed in (scaled TRUE).
Hundredths == 100

SeasonRegLambda(reg_lambda, computation) ==
    IF reg_lambda > 0 /\ computation = "fourier"
    THEN [scaled |-> TRUE, v |-> reg_lambda]
    ELSE [scaled |-> FALSE, v |-> reg_lambda]

SeqMin(s) == CHOOSE x \in {s[i] : i \in DOMAIN s} :
                 \A j \in DOMAIN s : x <= s[j]

SeqMax(s) == CHOOSE x \in {s[i] : i \in DOMAIN s} :
                 \A j \in DOMAIN s : x >= s[j]

\* dates.diff() without its leading NaT, restricted to the non-zero entries
NonZeroDiffs(dates) ==
    {dates[i + 1] - dates[i] : i \in 1 .. (Len(dates) - 1)} \ {0}

\* min_dt: the smallest non-zero difference, NaT (None) when there is none
MinDt(dates) ==
    LET d == NonZeroDiffs(dates)
    IN  IF d = {} THEN None ELSE Some(CHOOSE x \in d : \A y \in d : x <= y)

\* min_dt >= limit; a comparison with NaT is False
MinDtAtLeast(dates, limit) ==
    ~IsNone(MinDt(dates)) /\ Val(MinDt(dates)) >= limit

Span(dates) == SeqMax(dates) - SeqMin(dates)

\* faulty variant: yearly is also disabled at a span of exactly 730 days
YearlyDisable_Inclusive(dates) == Span(dates) <= Days(730)

YearlyDisable(dates) == Span(dates) < Days(730)

WeeklyDisable(dates) == Span(dates) < Weeks(2) \/ MinDtAtLeast(dates, Weeks(1))

DailyDisable(dates) == Span(dates) < Days(2) \/ MinDtAtLeast(dates, Days(1))

AutoDisableKeys == {"yearly", "weekly", "daily"}

\* auto_disable[name] for a key of the dict
AutoDisable(name, dates) ==
    CASE name = "yearly" -> YearlyDisable(dates)
      [] name = "weekly" -> WeeklyDisable(dates)
      [] name = "daily" -> DailyDisable(dates)

\* A str whose characters the code reads is a sequence of Unicode code
\* points.  The two mode names the loop compares with:
AutoStr == Str(<<97, 117, 116, 111>>)

CustomStr == Str(<<99, 117, 115, 116, 111, 109>>)

\* the code points int() strips as whitespace: tab, line feed, vertical
\* tab, form feed, carriage return, blank, and the Unicode spaces
WhitespaceChars ==
    {9, 10, 11, 12, 13, 32, 133, 160, 5760, 8232, 8233, 8239, 8287, 12288}
    \cup (8192 .. 8202)

\* the code point of the digit zero in every Unicode decimal-digit block;
\* the digits of a block are the ten code points from its zero on
DigitZeros ==
    {48, 1632, 1776, 1984, 2406, 2534, 2662, 2790, 2918, 3046, 3174, 3302,
     3430, 3558, 3664, 3792, 3872, 4160, 4240, 6112, 6160, 6470, 6608, 6784,
     6800, 6992, 7088, 7232, 7248, 42528, 43216, 43264, 43472, 43504, 43600,
     44016, 65296, 66720, 68912, 69734, 69872, 69942, 70096, 70384, 70736,
     70864, 71248, 71360, 71472, 71904, 72016, 72784, 73040, 73120, 92768,
     92864, 93008, 120782, 120792, 120802, 120812, 120822, 123200, 123632,
     125264, 130032}

PlusChar == 43

MinusChar == 45

UnderscoreChar == 95

IsDigit(c) == \E z \in DigitZeros : c >= z /\ c <= z + 9

DigitVal(c) == c - (CHOOSE z \in DigitZeros : c >= z /\ c <= z + 9)

\* the digit group of an int literal: digits, with single underscores
\* between digits only
IsDigitGroup(s) ==
    /\ Len(s) >= 1
    /\ IsDigit(s[1])
    /\ IsDigit(s[Len(s)])
    /\ \A i \in DOMAIN s : IsDigit(s[i]) \/ s[i] = UnderscoreChar
    /\ \A i \in 1 .. (Len(s) - 1) :
           ~(s[i] = UnderscoreChar /\ s[i + 1] = UnderscoreChar)

RECURSIVE DigitGroupVal(_, _)
\* the decimal value of a digit group, acc being the value read so far
DigitGroupVal(s, acc) ==
    IF s = <<>> THEN acc
    ELSE IF Head(s) = UnderscoreChar THEN DigitGroupVal(Tail(s), acc)
    ELSE DigitGroupVal(Tail(s), 10 * acc + DigitVal(Head(s)))

\* the value of a digit group: its leading zeros contribute nothing, the
\* rest is read digit by digit
DigitGroupInt(s) ==
    LET nonzero == {i \in DOMAIN s : IsDigit(s[i]) /\ DigitVal(s[i]) # 0}
    IN  IF nonzero = {} THEN 0
        ELSE DigitGroupVal(
                 SubSeq(s, CHOOSE i \in nonzero : \A j \in nonzero : i <= j, Len(s)),
                 0)

\* the most digits int() converts from a str: the interpreter's default
\* limit on integer string conversion (sys.int_info.default_max_str_digits)
MaxStrDigits == 4300

\* the number of digits of a digit group, its underscores not counted
DigitCount(s) == Cardinality({i \in DOMAIN s : s[i] # UnderscoreChar})

\* the positions of s that int() does not strip as whitespace
Unstripped(s) == {i \in DOMAIN s : s[i] \notin WhitespaceChars}

\* s without its surrounding whitespace and without its sign
LiteralBody(s) ==
    LET inner == Unstripped(s)
        first == CHOOSE i \in inner : \A j \in inner : i <= j
        last == CHOOSE i \in inner : \A j \in inner : i >= j
    IN  SubSeq(s, IF s[first] \in {PlusChar, MinusChar} THEN first + 1 ELSE first,
               last)

\* whether the literal has a minus sign
LiteralNegative(s) ==
    LET inner == Unstripped(s)
    IN  s[CHOOSE i \in inner : \A j \in inner : i <= j] = MinusChar

\* whether int(s) raises ValueError for a str s: it does unless s is, between
\* surrounding whitespace, an optional sign and a digit group of at most
\* MaxStrDigits digits (leading zeros counted)
ParseIntRaises(s) ==
    \/ Unstripped(s) = {}
    \/ ~IsDigitGroup(LiteralBody(s))
    \/ DigitCount(LiteralBody(s)) > MaxStrDigits

\* int(s) for a str s: the exception, or the value of the literal (a value
\* that fits the integers of the model)
ParseInt(s) ==
    IF ParseIntRaises(s) THEN [raised |-> TRUE, v |-> 0]
    ELSE IF LiteralNegative(s)
    THEN [raised |-> FALSE, v |-> -DigitGroupInt(LiteralBody(s))]
    ELSE [raised |-> FALSE, v |-> DigitGroupInt(LiteralBody(s))]

\* int(arg) of the last branch: an int is itself, a bool is 0 or 1, a str is
\* parsed as a decimal literal and raises ValueError when it is not one
IntOfArg(arg) ==
    IF arg.t = "int" THEN [raised |-> FALSE, v |-> arg.i]
    ELSE IF arg.t = "bool" THEN [raised |-> FALSE, v |-> IF arg.b THEN 1 ELSE 0]
    ELSE ParseInt(arg.v)

\* One iteration of the resolution loop for entry e: the new resolution, or
\* the exception the iteration raises, or skip for arg == "custom".
ResolveEntry(e, dates) ==
    LET arg == e.season.arg
        default_resolution == e.season.resolution
    IN  IF arg = CustomStr THEN [kind |-> "skip"]
        ELSE IF arg = AutoStr
        THEN IF e.name \notin AutoDisableKeys
             THEN [kind |-> "raise", exc |-> "KeyError"]
             ELSE IF AutoDisable(e.name, dates)
             THEN [kind |-> "set", resolution |-> 0]
             ELSE [kind |-> "set", resolution |-> default_resolution]
        ELSE IF arg = Bool(TRUE)
        THEN [kind |-> "set", resolution |-> default_resolution]
        ELSE IF arg = Bool(FALSE)
        THEN [kind |-> "set", resolution |-> 0]
        ELSE IF IntOfArg(arg).raised
        THEN [kind |-> "raise", exc |-> "ValueError"]
        ELSE [kind |-> "set", resolution |-> IntOfArg(arg).v]

RECURSIVE ResolveFrom(_, _, _)
\* The first loop of set_auto_seasonalities from entry i on: the periods with
\* the resolutions assigned so far, and the exception that stopped the loop.
ResolveFrom(periods, i, dates) ==
    IF i > Len(periods) THEN [periods |-> periods, exc |-> None]
    ELSE LET r == ResolveEntry(periods[i], dates)
         IN  IF r.kind = "raise" THEN [periods |-> periods, exc |-> Some(r.exc)]
             ELSE IF r.kind = "skip" THEN ResolveFrom(periods, i + 1, dates)
             ELSE ResolveFrom(
                     [periods EXCEPT ![i].season.resolution = r.resolution],
                     i + 1, dates)

\* faulty variant: the second loop also keeps an entry of resolution 0
KeepEntry_NonNegative(e) == e.season.resolution >= 0

\* the entries kept by the second loop
KeepEntry(e) == e.season.resolution > 0

\* new_periods: the kept entries in their order
NewPeriods(periods) == SelectSeq(periods, KeepEntry)

(* ---- inputs of the AllSeason actions ---- *)

SeasonArgs == {AutoStr, CustomStr, Bool(TRUE), Bool(FALSE), IntArg(0), IntArg(4)}

\* reg_lambda 0 and 2.5
SeasonRegInputs == {0, (5 * Hundredths) \div 2}

SeasonComputations == {"fourier"}

\* timestamps, in hours from the first one: half a day, 1, 2, 7, 14, 729 and
\* 730 days
DateVals == {0, 12, Days(1), Days(2), Days(7), Days(14), Days(729), Days(730)}

MaxDates == 3

IsAscending(s) == \A i \in 1 .. (Len(s) - 1) : s[i] <= s[i + 1]

\* ascending timestamps, counted from the first observation
DateInputs ==
    {d \in UNION {[1 .. n -> DateVals] : n \in 1 .. MaxDates} :
        d[1] = 0 /\ IsAscending(d)}

AppendInputs ==
    { [name |-> "monthly", season |-> Season(0, Days(30), CustomStr)],
      [name |-> "monthly", season |-> Season(5, Days(30), CustomStr)],
      [name |-> "monthly", season |-> Season(5, Days(30), AutoStr)],
      [name |-> "weekly", season |-> Season(5, Days(7), Str(<<111, 110>>))],
      [name |-> "daily", season |-> Season(5, Days(1), Str(<<9, 52>>))],
      [name |-> "daily", season |-> Season(5, Days(1), Str(<<45, 48>>))] }

(* ---- actions ---- *)

\* AllSeason(...): the dataclass __init__ followed by __post_init__
AllSeasonInit ==
    /\ self = NoObj
    /\ call = NoCall
    /\ \E reg_lambda \in SeasonRegInputs, computation \in SeasonComputations,
          yearly_arg \in SeasonArgs, weekly_arg \in SeasonArgs,
          daily_arg \in SeasonArgs :
         /\ call' = [op |-> "AllSeason"]
         /\ self' = [cls |-> "AllSeason", mode |-> "additive",
                     computation |-> computation,
                     reg_lambda |-> SeasonRegLambda(reg_lambda, computation),
                     yearly_arg |-> yearly_arg, weekly_arg |-> weekly_arg,
                     daily_arg |-> daily_arg,
                     periods |->
                       << Entry("yearly", Season(YearlyResolution, YearlyPeriod, yearly_arg)),
                          Entry("weekly", Season(WeeklyResolution, Days(7), weekly_arg)),
                          Entry("daily", Season(DailyResolution, Days(1), daily_arg)) >>]
         /\ ret' = "ok"
         /\ ncalls' = 0
         /\ data' = None

\* AllSeason.append(name, period, resolution, arg)
append ==
    /\ self.cls = "AllSeason"
    /\ ncalls < MaxCalls
    /\ \E a \in AppendInputs :
         /\ call' = [op |-> "append", name |-> a.name]
         /\ self' = [self EXCEPT !.periods = SetItem(@, a.name, a.season)]
         /\ ret' = "None"
         /\ ncalls' = ncalls + 1
         /\ UNCHANGED data

set_auto_seasonalities ==
    /\ self.cls = "AllSeason"
    /\ ncalls < MaxCalls
    /\ \E dates \in (IF IsNone(data) THEN DateInputs ELSE {Val(data)}) :
         LET r == ResolveFrom(self.periods, 1, dates)
             new_periods == NewPeriods(r.periods)
         IN  /\ call' = [op |-> "set_auto_seasonalities"]
             /\ self' = [self EXCEPT !.periods =
                            IF IsNone(r.exc) THEN new_periods ELSE r.periods]
             /\ ret' = IF ~IsNone(r.exc) THEN Val(r.exc)
                       ELSE IF Len(new_periods) > 0 THEN "self" ELSE "None"
             /\ ncalls' = ncalls + 1
             /\ data' = Some(dates)

(* =============================== Trend ================================= *)

\* A float among the Trend arguments is held in eighths: a binary fraction,
\* so that 1.0 + trend_reg is exact in floats and the float denominator of
\* the automatic threshold has the sign of the exact one.
Eighths == 8

GrowthNames == {"off", "linear", "discontinuous", "logistic"}

\* a float, held in eighths
Float(f) == [t |-> "float", f |-> f]

\* growth == True and growth == False are equalities: the numbers 1 and 1.0
\* equal True, the numbers 0 and 0.0 equal False
EqualsBool(x, b) ==
    IF x.t = "bool" THEN x.b = b
    ELSE IF x.t = "int" THEN x.i = (IF b THEN 1 ELSE 0)
    ELSE IF x.t = "float" THEN x.f = (IF b THEN Eighths ELSE 0)
    ELSE FALSE

\* The check of the growth setting: a named mode is kept, a value equal to
\* True gives "linear", a value equal to False gives "off", anything else
\* defaults to "linear".
NormalizeGrowth(growth) ==
    IF growth.t = "str" /\ growth.v \in GrowthNames THEN growth.v
    ELSE IF EqualsBool(growth, TRUE) THEN "linear"
    ELSE IF EqualsBool(growth, FALSE) THEN "off"
    ELSE "linear"

\* days from 1970-01-01 to the calendar date [y, m, d] (proleptic Gregorian)
DaysFromCivil(date) ==
    LET y == IF date.m <= 2 THEN date.y - 1 ELSE date.y
        era == y \div 400
        yoe == y - era * 400
        mp == IF date.m > 2 THEN date.m - 3 ELSE date.m + 9
        doy == (153 * mp + 2) \div 5 + date.d - 1
        doe == yoe * 365 + yoe \div 4 - yoe \div 100 + doy
    IN  era * 146097 + doe - 719468

\* pd.to_datetime(changepoints).values: each date as a timestamp, in the
\* order of the list
ToDatetime(changepoints) ==
    [i \in DOMAIN changepoints |-> Days(DaysFromCivil(changepoints[i]))]

\* 3.0 / (3.0 + (1.0 + trend_reg) * np.sqrt(n_changepoints)), kept as its
\* terms: the value is num / (a + b * sqrt(n)), num, a and b in eighths
AutoThreshold(trend_reg, n_changepoints) ==
    [t |-> "ratio", num |-> 3 * Eighths, a |-> 3 * Eighths,
     b |-> Eighths + trend_reg, n |-> n_changepoints]

\* the sign of a + b * sqrt(n) for a > 0 and n >= 0: for b < 0 and n > 0 it
\* is the sign of a * a - b * b * n, found by dividing a * a by b * b
DenominatorSign(r) ==
    IF r.b >= 0 \/ r.n = 0 THEN 1
    ELSE IF -r.b > r.a THEN -1
    ELSE LET q == (r.a * r.a) \div (r.b * r.b)
             rem == (r.a * r.a) % (r.b * r.b)
         IN  IF r.n < q THEN 1
             ELSE IF r.n > q THEN -1
             ELSE IF rem = 0 THEN 0
             ELSE 1

\* The sign of a stored threshold, and whether it is finite.  A numpy
\* division by zero gives inf.
ThresholdFinite(th) == th.t = "int" \/ DenominatorSign(th) # 0

ThresholdSign(th) == IF th.t = "int"
                     THEN (IF th.i > 0 THEN 1 ELSE IF th.i = 0 THEN 0 ELSE -1)
                     ELSE (IF DenominatorSign(th) >= 0 THEN 1 ELSE -1)

\* The handling of trend_reg_threshold, from the value passed in
NormalizeThreshold(threshold, trend_reg, n_changepoints) ==
    IF threshold.t = "bool"
    THEN IF threshold.b THEN Some(AutoThreshold(trend_reg, n_changepoints))
         ELSE None
    ELSE IF threshold.i < 0 THEN None
    ELSE IF threshold.i = 0 THEN None
    ELSE Some(threshold)

\* The handling of trend_reg, given the normalized threshold: the stored
\* weight, or the TypeError of comparing None with 0.  The stored weight is
\* the int 0, the value passed in (scaled FALSE, in eighths) or the float
\* product 0.001 * trend_reg of the value passed in (scaled TRUE).
NormalizeTrendReg(trend_reg, n_changepoints, threshold) ==
    LET zero == [scaled |-> FALSE, v |-> 0]
    IN  IF trend_reg < 0 THEN [raised |-> FALSE, trend_reg |-> zero]
        ELSE IF trend_reg > 0
        THEN IF n_changepoints > 0
             THEN [raised |-> FALSE,
                   trend_reg |-> [scaled |-> TRUE, v |-> trend_reg]]
             ELSE IF IsNone(threshold)
                  THEN [raised |-> TRUE, trend_reg |-> zero]
                  ELSE [raised |-> FALSE, trend_reg |-> zero]
        ELSE [raised |-> FALSE, trend_reg |-> [scaled |-> FALSE, v |-> trend_reg]]

\* The attributes that only a logistic trend has, in tenths: tau 0.1, the
\* init quantiles 0.1 and 0.9, cap 0.5 and floor -0.5; the slope is a ratio.
LogisticDefaults ==
    [tau |-> Some(1), trend_floor_init_quantile |-> Some(1),
     trend_cap_init_quantile |-> Some(9),
     initial_slope |-> Some([num |-> 0, den |-> 1]),
     cap_quantile |-> Some(5), floor_quantile |-> Some(-5)]

NoLogistic ==
    [tau |-> None, trend_floor_init_quantile |-> None,
     trend_cap_init_quantile |-> None, initial_slope |-> None,
     cap_quantile |-> None, floor_quantile |-> None]

\* Trend.__post_init__ on the values passed to the constructor
TrendPostInit(growth, changepoints, n_changepoints, trend_reg, threshold, trend_cap_user, trend_floor_user) ==
    LET g == NormalizeGrowth(growth)
        cp1 == IF g = "off" THEN None ELSE changepoints
        n1 == IF g = "off" THEN 0 ELSE n_changepoints
        lg == IF g = "logistic" THEN LogisticDefaults ELSE NoLogistic
        n2 == IF IsNone(cp1) THEN n1 ELSE Len(Val(cp1))
        cp2 == IF IsNone(cp1) THEN None ELSE Some(ToDatetime(Val(cp1)))
        th == NormalizeThreshold(threshold, trend_reg, n2)
        reg == NormalizeTrendReg(trend_reg, n2, th)
    IN  [raised |-> reg.raised,
         obj |-> [cls |-> "Trend", growth |-> g, changepoints |-> cp2,
                  n_changepoints |-> n2, changepoints_range |-> 8,
                  trend_reg |-> reg.trend_reg, trend_reg_threshold |-> th,
                  trend_cap_user |-> trend_cap_user,
                  trend_floor_user |-> trend_floor_user,
                  tau |-> lg.tau,
                  trend_floor_init_quantile |-> lg.trend_floor_init_quantile,
                  trend_cap_init_quantile |-> lg.trend_cap_init_quantile,
                  initial_slope |-> lg.initial_slope,
                  cap_quantile |-> lg.cap_quantile,
                  floor_quantile |-> lg.floor_quantile]]

RECURSIVE SumTo(_, _)
SumTo(f, n) == IF n = 0 THEN 0 ELSE f[n] + SumTo(f, n - 1)

\* The slope of np.linalg.lstsq of the targets on [time, 1], as the ratio
\* (n * Sum(t*y) - Sum(t) * Sum(y)) / (n * Sum(t*t) - Sum(t)^2)
LstsqSlope(time, targets) ==
    LET n == Len(targets)
        st == SumTo(time, n)
        sy == SumTo(targets, n)
        sty == SumTo([i \in 1 .. n |-> time[i] * targets[i]], n)
        stt == SumTo([i \in 1 .. n |-> time[i] * time[i]], n)
    IN  [num |-> n * sty - st * sy, den |-> n * stt - st * st]

\* torch.kthvalue(targets, k): the k-th smallest element, 1 <= k <= n
KthValue(targets, k) ==
    CHOOSE v \in {targets[i] : i \in DOMAIN targets} :
        /\ Cardinality({i \in DOMAIN targets : targets[i] < v}) < k
        /\ Cardinality({i \in DOMAIN targets : targets[i] <= v}) >= k

\* int(targets.shape[0] * quantile), the quantile in tenths
QuantileIndex(n, quantile) == IntQuot(n * quantile, 10)

KthInRange(targets, k) == k >= 1 /\ k <= Len(targets)

\* The guard of the cap assignment, and the guard of the floor assignment
CapGuard(s) == ~s.trend_cap_user

FloorGuard(s) == ~s.trend_cap_user

\* The body of init_logistic_growth after its assertion: the slope, then the
\* cap, then the floor; kthvalue raises RuntimeError for k out of range and
\* leaves the earlier assignments in place.
InitLogisticGrowth(s, dataset) ==
    LET n == Len(dataset.targets)
        s1 == [s EXCEPT !.initial_slope =
                  Some(LstsqSlope(dataset.time, dataset.targets))]
        kc == QuantileIndex(n, Val(s.trend_cap_init_quantile))
        badC == CapGuard(s) /\ ~KthInRange(dataset.targets, kc)
        s2 == IF CapGuard(s) /\ ~badC
              THEN [s1 EXCEPT !.cap_quantile = Some(KthValue(dataset.targets, kc))]
              ELSE s1
        kf == QuantileIndex(n, Val(s.trend_floor_init_quantile))
        badF == FloorGuard(s) /\ ~KthInRange(dataset.targets, kf)
        s3 == IF FloorGuard(s) /\ ~badF
              THEN [s2 EXCEPT !.floor_quantile = Some(KthValue(dataset.targets, kf))]
              ELSE s2
    IN  IF badC THEN [self |-> s1, ret |-> "RuntimeError"]
        ELSE IF badF THEN [self |-> s2, ret |-> "RuntimeError"]
        ELSE [self |-> s3, ret |-> "None"]

(* ---- inputs of the Trend actions ---- *)

GrowthInputs == { Str("off"), Str("linear"), Str("discontinuous"),
                  Str("logistic"), Str("exponential"), Bool(TRUE), Bool(FALSE),
                  IntArg(0), IntArg(1), Float(0) }

Date(y, m, d) == [y |-> y, m |-> m, d |-> d]

ChangepointDates == { Date(2019, 12, 31), Date(2020, 3, 1) }

MaxChangepoints == 2

ChangepointInputs ==
    {None} \cup
    {Some(c) : c \in UNION {[1 .. n -> ChangepointDates] : n \in 0 .. MaxChangepoints}}

NChangepointInputs == {0, 1}

\* trend_reg as passed in, in eighths: -5, -4, 0, 0.5 and 2
TrendRegInputs == {-5 * Eighths, -4 * Eighths, 0, Eighths \div 2, 2 * Eighths}

ThresholdInputs == { Bool(TRUE), Bool(FALSE), IntArg(-1), IntArg(0), IntArg(1) }

\* targets (in tenths) of a dataset of n samples: constant, rising by one
\* and rising by three, taken modulo the length
TargetInputs(n) ==
    {[i \in 1 .. n |-> (a * i + b) % n] : a \in {0, 1, 3}, b \in {2}}

\* the length of a training set long enough for both quantile indices
DataLen == 10

DatasetInputs ==
    {[time |-> [i \in 1 .. Len(y) |-> i - 1], targets |-> y] :
        y \in TargetInputs(DataLen) \cup TargetInputs(DataLen \div 2)}

(* ---- actions ---- *)

\* Trend(...): the dataclass __init__ followed by __post_init__
TrendInit ==
    /\ self = NoObj
    /\ call = NoCall
    /\ \E growth \in GrowthInputs, changepoints \in ChangepointInputs,
          n_changepoints \in NChangepointInputs, trend_reg \in TrendRegInputs,
          threshold \in ThresholdInputs, trend_cap_user \in BOOLEAN,
          trend_floor_user \in BOOLEAN :
         LET r == TrendPostInit(growth, changepoints, n_changepoints, trend_reg,
                                threshold, trend_cap_user, trend_floor_user)
         IN  /\ call' = [op |-> "Trend", growth |-> growth,
                         changepoints |-> changepoints]
             /\ self' = IF r.raised THEN NoObj ELSE r.obj
             /\ ret' = IF r.raised THEN "TypeError" ELSE "ok"
             /\ ncalls' = 0
             /\ data' = None

init_logistic_growth ==
    /\ self.cls = "Trend"
    /\ ncalls < MaxCalls
    /\ \E dataset \in (IF IsNone(data) THEN DatasetInputs ELSE {Val(data)}) :
         LET ok == self.growth = "logistic"
             r == IF ok THEN InitLogisticGrowth(self, dataset)
                  ELSE [self |-> self, ret |-> "AssertionError"]
         IN  /\ call' = [op |-> "init_logistic_growth"]
             /\ self' = r.self
             /\ ret' = r.ret
             /\ ncalls' = ncalls + 1
             /\ data' = Some(dataset)

(* ============================ specification ============================ *)

Init ==
    /\ self = NoObj
    /\ call = NoCall
    /\ ret = "ok"
    /\ ncalls = 0
    /\ data = None

Next ==
    \/ TrainInit
    \/ set_auto_batch_epoch
    \/ apply_train_speed
    \/ apply_train_speed_all
    \/ CovarInit
    \/ AllSeasonInit
    \/ append
    \/ set_auto_seasonalities
    \/ TrendInit
    \/ init_logistic_growth

Spec == Init /\ [][Next]_vars

(* =============================== claims ================================ *)

(* ---- C1 ---- *)

\* C1: when set_auto_seasonalities returns, no entry of periods has
\* resolution 0, and it returns None exactly when periods is empty (self
\* otherwise); with yearly, weekly and daily all on auto, all three disabled
\* by the date rules and nothing appended, it returns None.
ClaimYearlyOff(dates) == dates[Len(dates)] - dates[1] < 730 * 24

ClaimGaps(dates) == {dates[i + 1] - dates[i] : i \in 1 .. (Len(dates) - 1)} \ {0}

ClaimMinGapAtLeast(dates, hours) ==
    ClaimGaps(dates) # {} /\ \A g \in ClaimGaps(dates) : g >= hours

ClaimWeeklyOff(dates) ==
    dates[Len(dates)] - dates[1] < 14 * 24 \/ ClaimMinGapAtLeast(dates, 7 * 24)

ClaimDailyOff(dates) ==
    dates[Len(dates)] - dates[1] < 2 * 24 \/ ClaimMinGapAtLeast(dates, 24)

ClaimOff(name, dates) ==
    CASE name = "yearly" -> ClaimYearlyOff(dates)
      [] name = "weekly" -> ClaimWeeklyOff(dates)
      [] name = "daily" -> ClaimDailyOff(dates)

AllAutoAllOff(periods, dates) ==
    /\ Len(periods) = 3
    /\ \A i \in 1 .. 3 : /\ periods[i].season.arg = AutoStr
                         /\ periods[i].name \in {"yearly", "weekly", "daily"}
                         /\ ClaimOff(periods[i].name, dates)

\* C1: no zero resolution survives a returning set_auto_seasonalities, and
\* the result is None exactly for an empty mapping.
C1_NoZeroResolution ==
    [][ (call'.op = "set_auto_seasonalities" /\ ret' \in {"self", "None"}) =>
          /\ \A i \in DOMAIN self'.periods :
                 self'.periods[i].season.resolution # 0
          /\ (ret' = "None") <=> (self'.periods = <<>>)
          /\ (ret' = "self") <=> (self'.periods # <<>>)
          /\ AllAutoAllOff(self.periods, Val(data')) => ret' = "None" ]_vars

C1_Witness ==
    /\ call.op = "set_auto_seasonalities"
    /\ ncalls = 1
    /\ self.yearly_arg = AutoStr
    /\ self.weekly_arg = AutoStr
    /\ self.daily_arg = AutoStr
    /\ data = Some(<<0, 24>>)
    /\ self.periods = <<>>
    /\ ret = "None"

(* ---- C2 ---- *)

ClaimDefaultResolution(name) ==
    CASE name = "yearly" -> 6 [] name = "weekly" -> 3 [] name = "daily" -> 6

HasAt(periods, name, resolution) ==
    \E j \in DOMAIN periods : /\ periods[j].name = name
                              /\ periods[j].season.resolution = resolution

\* C2: for ascending dates, a built-in period on auto is kept at its default
\* resolution exactly when its disable rule is false, and dropped otherwise:
\* yearly off iff span < 730 days; weekly off iff span < 14 days or the
\* smallest non-zero gap >= 7 days; daily off iff span < 2 days or the
\* smallest non-zero gap >= 1 day.
C2_AutoRules ==
    [][ (call'.op = "set_auto_seasonalities" /\ ret' \in {"self", "None"}) =>
          \A i \in DOMAIN self.periods :
            LET e == self.periods[i]
            IN  ( /\ e.name \in {"yearly", "weekly", "daily"}
                  /\ e.season.arg = AutoStr
                  /\ e.season.resolution = ClaimDefaultResolution(e.name) ) =>
                IF ClaimOff(e.name, Val(data'))
                THEN e.name \notin Names(self'.periods)
                ELSE HasAt(self'.periods, e.name, ClaimDefaultResolution(e.name))
      ]_vars

\* yearly is kept at a span of exactly 730 days, with daily on as well
C2_Witness ==
    /\ call.op = "set_auto_seasonalities"
    /\ ncalls = 1
    /\ ret = "self"
    /\ data = Some(<<0, 12, 730 * 24>>)
    /\ self.yearly_arg = AutoStr
    /\ self.daily_arg = AutoStr
    /\ HasAt(self.periods, "yearly", 6)
    /\ HasAt(self.periods, "daily", 6)

(* ---- C3 ---- *)

\* floor(log10(n)) for n >= 1
ClaimLog10(n) == CHOOSE k \in 0 .. 9 : 10 ^ k <= n /\ n < 10 ^ (k + 1)

ClaimClamp(x, lo, hi) == IF x < lo THEN lo ELSE IF x > hi THEN hi ELSE x

\* 2^(2k - 1) clamped into [lo, hi]; for k = 0 the power is 1/2 < 1 <= lo
ClaimBatch(n, lo, hi) ==
    IF ClaimLog10(n) = 0 THEN lo
    ELSE ClaimClamp(2 ^ (2 * ClaimLog10(n) - 1), lo, hi)

ClaimEpochs(n, lo, hi) ==
    ClaimClamp((1000 * 2 ^ (3 + ClaimLog10(n))) \div n, lo, hi)

\* C3: for n_data >= 1 and min <= max, set_auto_batch_epoch sets an unset
\* batch size to 2^(2*floor(log10 n) - 1) clamped into [min_batch, max_batch]
\* and an unset epoch count to floor((1000/n) * 2^(3 + floor(log10 n)))
\* clamped into [min_epoch, max_epoch]; set values are left unchanged;
\* n_data = 100 with the default bounds gives batch 8 and epochs 320.
C3_AutoBatchEpoch ==
    [][ ( /\ call'.op = "set_auto_batch_epoch"
          /\ call'.n_data >= 1
          /\ call'.min_batch >= 1
          /\ call'.min_batch <= call'.max_batch
          /\ call'.min_epoch <= call'.max_epoch ) =>
          /\ ret' = "None"
          /\ self'.batch_size =
               IF IsNone(self.batch_size)
               THEN Some(ClaimBatch(call'.n_data, call'.min_batch, call'.max_batch))
               ELSE self.batch_size
          /\ self'.epochs =
               IF IsNone(self.epochs)
               THEN Some(ClaimEpochs(call'.n_data, call'.min_epoch, call'.max_epoch))
               ELSE self.epochs
          /\ ( /\ call'.n_data = 100
               /\ call'.min_batch = 1 /\ call'.max_batch = 128
               /\ call'.min_epoch = 5 /\ call'.max_epoch = 1000
               /\ IsNone(self.batch_size) /\ IsNone(self.epochs) ) =>
             (self'.batch_size = Some(8) /\ self'.epochs = Some(320)) ]_vars

C3_Witness ==
    /\ call.op = "set_auto_batch_epoch"
    /\ ncalls = 1
    /\ call.n_data = 100
    /\ call.max_batch = 128
    /\ call.max_epoch = 1000
    /\ self.batch_size = Some(8)
    /\ self.epochs = Some(320)
    /\ ret = "None"

(* ---- C4 ---- *)

\* floor(x * 2^k) for x >= 0
ClaimScale(x, k) == IF k >= 0 THEN x * 2 ^ k ELSE x \div 2 ^ (-k)

ClaimAtLeastOne(x) == IF x < 1 THEN 1 ELSE x

\* the Train instance the claim expects after a returning apply_train_speed
ClaimSpeedResult(s, batch, epoch, lr) ==
    IF s.train_speed = None \/ s.train_speed = Some(0) THEN s
    ELSE LET ts == Val(s.train_speed)
         IN  [s EXCEPT
                !.batch_size = IF batch
                               THEN Some(ClaimAtLeastOne(ClaimScale(Val(@), ts)))
                               ELSE @,
                !.epochs = IF epoch
                           THEN Some(ClaimAtLeastOne(ClaimScale(Val(@), -ts)))
                           ELSE @,
                !.learning_rate = IF lr
                                  THEN Some([mant |-> Val(@).mant,
                                             exp |-> Val(@).exp + ts])
                                  ELSE @]

\* C4: apply_train_speed changes nothing when train_speed is unset or zero;
\* otherwise exactly the fields whose switch is on change: batch_size to
\* max(1, floor(batch_size * 2^ts)), epochs to max(1, floor(epochs * 2^-ts)),
\* learning_rate to learning_rate * 2^ts; apply_train_speed_all acts as
\* apply_train_speed with the three switches on.
C4_TrainSpeed ==
    [][ /\ (call'.op = "apply_train_speed" /\ ret' = "None") =>
             self' = ClaimSpeedResult(self, call'.batch, call'.epoch, call'.lr)
        /\ (call'.op = "apply_train_speed_all" /\ ret' = "None") =>
             self' = ClaimSpeedResult(self, TRUE, TRUE, TRUE)
        /\ ( /\ call'.op \in {"apply_train_speed", "apply_train_speed_all"}
             /\ (self.train_speed = None \/ self.train_speed = Some(0)) ) =>
             (ret' = "None" /\ self' = self) ]_vars

\* train_speed -1 with the epoch switch on alone has doubled 10 epochs
C4_Witness ==
    /\ call.op = "apply_train_speed"
    /\ ncalls = 1
    /\ call.epoch /\ ~call.batch /\ ~call.lr
    /\ self.train_speed = Some(-1)
    /\ self.epochs = Some(20)
    /\ self.batch_size = Some(3)
    /\ ret = "None"

(* ---- C5 ---- *)

ClaimLossNames ==
    { <<"h","u","b","e","r">>, <<"s","m","o","o","t","h","l","1">>,
      <<"s","m","o","o","t","h","l","1","l","o","s","s">>,
      <<"m","a","e">>, <<"l","1">>, <<"l","1","l","o","s","s">>,
      <<"m","s","e">>, <<"m","s","e","l","o","s","s">>, <<"l","2">>,
      <<"l","2","l","o","s","s">> }

\* C5: the four unrecoverable misconfigurations raise: Train with a loss
\* name that is none of the known names in any case (no instance results),
\* set_auto_batch_epoch with n_data < 1 and init_logistic_growth on a trend
\* that is not logistic (the instance is as before the call), Covar with a
\* negative reg_lambda (no instance results; 0 and None construct).
C5_HardFailures ==
    [][ /\ ( /\ call'.op = "Train"
             /\ call'.loss_func.t = "str"
             /\ Lower(call'.loss_func.v) \notin ClaimLossNames ) =>
             (ret' = "NotImplementedError" /\ self' = NoObj)
        /\ (call'.op = "set_auto_batch_epoch" /\ call'.n_data < 1) =>
             (ret' = "AssertionError" /\ self' = self)
        /\ (call'.op = "Covar" /\ call'.reg_lambda # None
                               /\ Val(call'.reg_lambda) < 0) =>
             (ret' = "ValueError" /\ self' = NoObj)
        /\ (call'.op = "Covar" /\ call'.reg_lambda \in {None, Some(0)}) =>
             (ret' = "ok" /\ self'.cls = "Covar"
                          /\ self'.reg_lambda = call'.reg_lambda)
        /\ (call'.op = "init_logistic_growth" /\ self.growth # "logistic") =>
             (ret' = "AssertionError" /\ self' = self) ]_vars

\* set_auto_batch_epoch has failed on n_data = 0 after an earlier call
C5_Witness ==
    /\ call.op = "set_auto_batch_epoch"
    /\ call.n_data = 0
    /\ ncalls = 2
    /\ ret = "AssertionError"
    /\ self.cls = "Train"

(* ---- C6 ---- *)

\* C6: constructing a Trend never fails: for every growth value,
\* changepoints, count, regularization weight and threshold the constructor
\* completes, and a positive weight with zero changepoints is set to 0.
C6_ConstructionNeverFails ==
    call.op = "Trend" => (ret = "ok" /\ self.cls = "Trend")

(* ---- C7 ---- *)

\* C7: after Trend construction the regularization threshold is None or a
\* finite non-negative number.
C7_ThresholdNonNegative ==
    (call.op = "Trend" /\ ret = "ok") =>
        \/ IsNone(self.trend_reg_threshold)
        \/ /\ ThresholdFinite(Val(self.trend_reg_threshold))
           /\ ThresholdSign(Val(self.trend_reg_threshold)) >= 0

(* ---- C8 ---- *)

\* C8: with changepoints supplied and growth not off, the stored
\* changepoints are in ascending order whatever the order supplied, and
\* n_changepoints is the number supplied.
C8_ChangepointsSorted ==
    (call.op = "Trend" /\ ret = "ok" /\ ~IsNone(call.changepoints)
                       /\ self.growth # "off") =>
        /\ ~IsNone(self.changepoints)
        /\ IsAscending(Val(self.changepoints))
        /\ self.n_changepoints = Len(Val(call.changepoints))

(* ---- C9 ---- *)

\* C9: on a logistic trend, init_logistic_growth overwrites the floor with
\* the target value at the lower init quantile exactly when
\* trend_floor_user is false and leaves it unchanged otherwise, whatever
\* trend_cap_user is; likewise the cap with trend_cap_user.
C9_FloorGuardedByFloorFlag ==
    [][ (call'.op = "init_logistic_growth" /\ self.growth = "logistic"
                                           /\ ret' = "None"
                                           /\ Len(Val(data').targets) >= 10) =>
          LET y == Val(data').targets
              n == Len(y)
          IN  /\ self'.floor_quantile =
                   IF self.trend_floor_user THEN self.floor_quantile
                   ELSE Some(KthValue(y, n \div 10))
              /\ self'.cap_quantile =
                   IF self.trend_cap_user THEN self.cap_quantile
                   ELSE Some(KthValue(y, (9 * n) \div 10)) ]_vars

(* ---- C10 ---- *)

\* C10: in every reachable Train state with epochs set, lambda_delay is
\* floor(reg_delay_pct * epochs) for the current epochs.
C10_LambdaDelayTracksEpochs ==
    (self.cls = "Train" /\ ~IsNone(self.epochs)) =>
        /\ ~IsNone(self.lambda_delay)
        /\ Val(self.lambda_delay) = (self.reg_delay_pct * Val(self.epochs)) \div 4

====
